---- MODULE Spec2Model ----
(***************************************************************************)
(* The semantic index of the sales bot: the persistent collection owned by *)
(* VectorStore, the refresh path (_load_qa_data: load_from_sheet, then     *)
(* load_data = delete + add) and the query path (search).                  *)
(*                                                                         *)
(* VectorStore takes no lock.  load_data makes two separate calls on the   *)
(* collection, and a search issued by another caller may run between them. *)
(* Every call on the collection (delete, add, query) and every fetch       *)
(* attempt may raise.                                                      *)
(***************************************************************************)
EXTENDS Integers, Sequences, FiniteSets

\* ---------------------------------------------------------------- bounds
MaxLen == 2
MaxK == 3
\* longest frame the bot's refreshes load
MaxBotLen == 1

\* config.TOP_K_RESULTS
TOP_K_RESULTS == 3
\* a retry budget of one attempt more
STOP_AFTER_FOUR == 3 + 1

\* @retry(stop=stop_after_attempt(3))
STOP_AFTER_ATTEMPT == 3

\* ------------------------------------------------------------ input sets
Pairs == { [question |-> "q1", answer |-> "a1"],
           [question |-> "q3", answer |-> "a2"] }

QueryTexts == {"q1", "q2", "q3"}

RECURSIVE SeqsUpTo(_, _)
SeqsUpTo(S, n) ==
  IF n = 0 THEN { <<>> }
  ELSE LET shorter == SeqsUpTo(S, n - 1)
       IN  shorter \cup { Append(s, x) : s \in shorter, x \in S }

\* the data frames load_from_sheet can return
Frames == SeqsUpTo(Pairs, MaxLen)

\* n_results: <<>> is None (argument omitted), <<k>> is the integer k
NResults == { <<>> } \cup { <<k>> : k \in 0..MaxK }

\* ------------------------------------------------- the embedding function
\* SentenceTransformerEmbeddingFunction: a deterministic map from text to a
\* point; here points on a line, so that "q2" is equidistant from "q1", "q3"
Embed(text) ==
  CASE text = "q1" -> 0
    [] text = "q2" -> 1
    [] text = "q3" -> 2
    [] OTHER -> 5

Abs(x) == IF x < 0 THEN -x ELSE x

Distance(a, b) == Abs(Embed(a) - Embed(b))

\* ------------------------------------------------------- the collection
\* f"doc_{i}"
doc_id(i) == << "doc_", i >>

ids_of(c) == { item.id : item \in c }

\* a delete that removes nothing
delete_nothing(c) == c

\* collection.delete(where={}) when it does not raise
delete_all(c) == {}

\* collection.add(documents, metadatas, ids) when it does not raise;
\* an id that is already present is kept as it is
collection_add(c, documents, metadatas, ids) ==
  c \cup { [id |-> ids[i], document |-> documents[i], metadata |-> metadatas[i]] :
             i \in { j \in 1..Len(ids) : ids[j] \notin ids_of(c) } }

\* the order collection.query returns items in: nearest first, items at the
\* same distance in the order of their identifiers
Nearer(x, y, text) ==
  \/ Distance(text, x.document) < Distance(text, y.document)
  \/ /\ Distance(text, x.document) = Distance(text, y.document)
     /\ x.id[2] <= y.id[2]

RECURSIVE Nearest(_, _, _)
Nearest(c, text, n) ==
  IF n = 0 \/ c = {} THEN <<>>
  ELSE LET best == CHOOSE x \in c : \A y \in c : Nearer(x, y, text)
       IN  <<best>> \o Nearest(c \ {best}, text, n - 1)

\* collection.query(query_texts=[query], n_results=n) when it does not raise:
\* the parallel lists documents[0], metadatas[0], distances[0]
collection_query(c, text, n) ==
  LET hits == Nearest(c, text, n)
  IN  [ documents |-> [i \in 1..Len(hits) |-> hits[i].document],
        metadatas |-> [i \in 1..Len(hits) |-> hits[i].metadata],
        distances |-> [i \in 1..Len(hits) |-> Distance(text, hits[i].document)] ]

\* ------------------------------------------------------------- load_data
documents_of(frame) == [i \in 1..Len(frame) |-> frame[i].question]
\* payloads taken from the frame in the opposite order of the documents
metadatas_reversed(frame) ==
  [i \in 1..Len(frame) |-> [answer |-> frame[Len(frame) + 1 - i].answer]]

metadatas_of(frame) == [i \in 1..Len(frame) |-> [answer |-> frame[i].answer]]
ids_for(documents) == [i \in 1..Len(documents) |-> doc_id(i - 1)]

\* the add call of load_data
add_frame(c, frame) ==
  collection_add(c, documents_of(frame), metadatas_of(frame),
                 ids_for(documents_of(frame)))

\* the collection a completed load_data(frame) is meant to leave
Generation(frame) == add_frame({}, frame)

\* ---------------------------------------------------------------- search
\* n_results = n_results or config.TOP_K_RESULTS
effective_n(n_results) ==
  IF n_results = <<>> THEN TOP_K_RESULTS
  ELSE IF n_results[1] = 0 THEN TOP_K_RESULTS
  ELSE n_results[1]

relevance_score(distance) == 1 - distance

\* the answers list built from the query results
format_results(results) ==
  [i \in 1..Len(results.documents) |->
     [ question |-> results.documents[i],
       answer |-> results.metadatas[i].answer,
       relevance_score |-> relevance_score(results.distances[i]) ]]

search_answers(c, query, n_results) ==
  format_results(collection_query(c, query, effective_n(n_results)))

NoReturn ==
  [ op |-> "none", query |-> "", n_results |-> <<>>, failed |-> FALSE,
    raised |-> FALSE, result |-> <<>> ]

\* a search whose except block re-raises, as load_data's does
search_return_reraising(c, query, n_results, fails) ==
  [ op |-> "search", query |-> query, n_results |-> n_results,
    failed |-> fails, raised |-> fails,
    result |-> IF fails THEN <<>> ELSE search_answers(c, query, n_results) ]

\* what search hands back; fails = the query call raised inside the try
search_return(c, query, n_results, fails) ==
  [ op |-> "search", query |-> query, n_results |-> n_results,
    failed |-> fails, raised |-> FALSE,
    result |-> IF fails THEN <<>> ELSE search_answers(c, query, n_results) ]

\* -------------------------------------------------------- load_from_sheet
Headers == { <<"question", "answer">>, <<"answer", "question">>,
             <<"question", "note">> }

sheet_of(header, frame) ==
  <<header>> \o
  [i \in 1..Len(frame) |->
     [j \in 1..Len(header) |->
        IF header[j] = "question" THEN frame[i].question
        ELSE IF header[j] = "answer" THEN frame[i].answer
        ELSE "n/a"]]

\* what one values().get().execute() can give: an HttpError or the values
HttpError == << <<"HttpError">> >>
Responses ==
  { HttpError, <<>> } \cup { sheet_of(h, f) : h \in Headers, f \in Frames }

col(header, name) == CHOOSE j \in 1..Len(header) : header[j] = name

has_columns(header) ==
  /\ \E j \in 1..Len(header) : header[j] = "question"
  /\ \E j \in 1..Len(header) : header[j] = "answer"

\* one attempt of load_from_sheet raises
attempt_raises(values) ==
  \/ values = HttpError
  \/ values # <<>> /\ ~has_columns(values[1])

\* the frame one successful attempt returns: df[['question', 'answer']]
frame_of(values) ==
  IF values = <<>> THEN <<>>
  ELSE [i \in 1..(Len(values) - 1) |->
          [ question |-> values[i + 1][col(values[1], "question")],
            answer |-> values[i + 1][col(values[1], "answer")] ]]

\* ------------------------------------------------------------------ state
VARIABLES
  collection,   \* the items of the persisted collection "sales_data"
  pc,           \* position of the refresh path: idle, fetch, delete, add
  attempt,      \* number of the running load_from_sheet attempt
  df,           \* the frame of the latest load_data call
  pre,          \* the collection when the latest refresh began
  outcome,      \* how the latest refresh ended
  good,         \* <<frame>> of the latest load_data that returned normally
  sret,         \* what the latest search returned, until the next other step
  phase,        \* the process: down, init (SalesBot.__init__), starting
                \* (run() up to run_polling), polling
  running,      \* the coroutine that holds the event loop, or "none"
  tpc,          \* position of main, of the update handler and of the job
  tdf,          \* the frame each of them is loading
  tres,         \* how the latest _load_qa_data of main and of /refresh ended
  kind,         \* the update being handled: refresh or message
  calls,        \* the reply_text calls made for that update, in order
  hits,         \* what search returned for the message being handled
  gen,          \* the contexts passed to the generation model for it
  cause,        \* why the process went down the last time
  lastfail      \* the latest operation that failed while polling

store == << pc, attempt, df, pre, outcome, good, sret >>

bot == << phase, running, tpc, tdf, tres, kind, calls, hits, gen, cause,
          lastfail >>

vars == << collection, store, bot >>

Tasks == {"main", "update", "job"}

\* nothing runs: the state of a process that is not started
BotIdle ==
  /\ phase = "down"
  /\ running = "none"
  /\ tpc = [t \in Tasks |-> "idle"]
  /\ tdf = [t \in Tasks |-> <<>>]
  /\ tres = [t \in Tasks |-> "none"]
  /\ kind = "none"
  /\ calls = <<>>
  /\ hits = <<>>
  /\ gen = <<>>
  /\ cause = "none"
  /\ lastfail = "none"

\* no load_data has returned normally yet
NoFrame == <<>>

\* VectorStore.__init__ opens whatever was persisted by an earlier run
Init ==
  /\ collection \in { Generation(f) : f \in Frames }
  /\ pc = "idle"
  /\ attempt = 0
  /\ df = <<>>
  /\ pre = collection
  /\ outcome = "none"
  /\ good = NoFrame
  /\ sret = NoReturn
  /\ BotIdle

\* --------------------------------------------------------------- actions
\* a refresh that clears the collection before it fetches
load_qa_data_clearing_first ==
  /\ pc = "idle"
  /\ pc' = "fetch"
  /\ attempt' = 1
  /\ pre' = collection
  /\ collection' = delete_all(collection)
  /\ outcome' = "running"
  /\ sret' = NoReturn
  /\ UNCHANGED << df, good >>
  /\ UNCHANGED bot

\* _load_qa_data is entered (startup, /refresh or the scheduled job)
load_qa_data ==
  /\ pc = "idle"
  /\ pc' = "fetch"
  /\ attempt' = 1
  /\ pre' = collection
  /\ outcome' = "running"
  /\ sret' = NoReturn
  /\ UNCHANGED << collection, df, good >>
  /\ UNCHANGED bot

\* one attempt of load_from_sheet under @retry
load_from_sheet(values) ==
  /\ pc = "fetch"
  /\ sret' = NoReturn
  /\ IF attempt_raises(values)
     THEN IF attempt < STOP_AFTER_ATTEMPT
          THEN /\ attempt' = attempt + 1
               /\ UNCHANGED << pc, outcome, df >>
          ELSE /\ pc' = "idle"
               /\ attempt' = 0
               /\ outcome' = "fetch_failed"
               /\ UNCHANGED df
     ELSE /\ pc' = "delete"
          /\ attempt' = 0
          /\ df' = frame_of(values)
          /\ UNCHANGED outcome
  /\ UNCHANGED << collection, pre, good >>
  /\ UNCHANGED bot

\* load_data, line 29: self.collection.delete(where={})
load_data_delete(raises) ==
  /\ pc = "delete"
  /\ sret' = NoReturn
  /\ IF raises
     THEN /\ pc' = "idle"
          /\ outcome' = "delete_failed"
          /\ UNCHANGED collection
     ELSE /\ pc' = "add"
          /\ collection' = delete_all(collection)
          /\ UNCHANGED outcome
  /\ UNCHANGED << attempt, df, pre, good >>
  /\ UNCHANGED bot

\* load_data, lines 31-39: self.collection.add(...)
load_data_add(raises) ==
  /\ pc = "add"
  /\ sret' = NoReturn
  /\ pc' = "idle"
  /\ IF raises
     THEN /\ outcome' = "add_failed"
          /\ UNCHANGED << collection, good >>
     ELSE /\ outcome' = "ok"
          /\ collection' = add_frame(collection, df)
          /\ good' = <<df>>
  /\ UNCHANGED << attempt, df, pre >>
  /\ UNCHANGED bot

\* a search that drops the collection's items when the query call raises
search_resetting(query, n_results, fails) ==
  /\ sret' = search_return(collection, query, n_results, fails)
  /\ collection' = IF fails THEN {} ELSE collection
  /\ UNCHANGED << pc, attempt, df, pre, outcome, good >>
  /\ UNCHANGED bot

\* VectorStore.search(query, n_results)
search(query, n_results, fails) ==
  /\ sret' = search_return(collection, query, n_results, fails)
  /\ UNCHANGED << collection, pc, attempt, df, pre, outcome, good >>
  /\ UNCHANGED bot

Next ==
  \/ load_qa_data
  \/ \E values \in Responses : load_from_sheet(values)
  \/ \E raises \in BOOLEAN : load_data_delete(raises)
  \/ \E raises \in BOOLEAN : load_data_add(raises)
  \/ \E query \in QueryTexts, n_results \in NResults, fails \in BOOLEAN :
       search(query, n_results, fails)

Spec == Init /\ [][Next]_vars

TypeOK ==
  /\ pc \in {"idle", "fetch", "delete", "add"}
  /\ df \in Frames
  /\ attempt \in 0..STOP_AFTER_ATTEMPT
  /\ outcome \in {"none", "running", "fetch_failed", "delete_failed",
                  "add_failed", "ok"}

\* ------------------------------------------------------------ the bot
\* main.py, bot.py: the process as it runs.  SalesBot.__init__ loads the
\* corpus, run() registers the handlers and the daily job and polls.  The
\* handlers and the job are coroutines of one event loop: a coroutine keeps
\* the loop until it awaits, and the only awaits are the reply_text calls;
\* _load_qa_data, search and the generation call are synchronous.

\* what one call of load_from_sheet ends with, its retries included
BotFrames == SeqsUpTo(Pairs, MaxBotLen)

FetchResults == { <<"raise">> } \cup { <<"ok", f>> : f \in BotFrames }

\* the event loop switches to a coroutine inside a synchronous call too
loop_taken_anytime == TRUE

\* the event loop can start or resume a coroutine: none is running
loop_free == running = "none"

\* VectorStore.__init__ that drops what it finds and starts afresh
recreate_collection(c) == {}

\* client.get_or_create_collection(name="sales_data"): opens what is there
get_or_create_collection(c) == c

\* a constructor that logs the failed load and goes on to run()
after_init_swallowing(res) == "starting"

\* main(): SalesBot() raised -> sys.exit(1); otherwise bot.run() is called
after_init(res) == IF res = "ok" THEN "starting" ELSE "down"

\* a job whose exception reaches main() and ends the process
after_job_reraising(res) == IF res = "ok" THEN "polling" ELSE "down"

\* refresh_data: both branches only log
after_job(res) == "polling"

\* a /refresh whose load error is swallowed before the reply is chosen
refresh_reply_always_ok(res) == "reply_ok"

\* refresh: the reply chosen once _load_qa_data has returned or raised
refresh_reply(res) == IF res = "ok" THEN "reply_ok" ELSE "reply_failed"

\* the context built from the retrieved pairs
context_of(docs) ==
  [i \in 1..Len(docs) |-> << "Q: ", docs[i].question, "\nA: ", docs[i].answer >>]

\* a handler without the early return on an empty result
generation_calls_always(docs) == << context_of(docs) >>

\* handle_message: the calls of mistral_client.chat, each with its context
generation_calls(docs) ==
  IF docs = <<>> THEN <<>> ELSE << context_of(docs) >>

\* handle_message: the reply it goes on to send
message_reply(docs, chat_raises) ==
  IF docs = <<>> THEN "reply_nomatch"
  ELSE IF chat_raises THEN "reply_error"
  ELSE "reply_answer"

Replies == {"reply_ok", "reply_failed", "reply_nomatch", "reply_answer",
            "reply_error"}

\* the text reply_text is called with at each position
message_of(position) ==
  CASE position = "reply_ok" -> "success"
    [] position = "reply_failed" -> "failure"
    [] position = "reply_nomatch" -> "nomatch"
    [] position = "reply_answer" -> "answer"
    [] OTHER -> "error"

\* where the handler goes when reply_text raises: into its except block,
\* or, from the except block, out of the handler
on_reply_error(position) ==
  CASE position = "reply_ok" -> "reply_failed"
    [] position \in {"reply_nomatch", "reply_answer"} -> "reply_error"
    [] OTHER -> "idle"

handler_name(t) ==
  IF t = "job" THEN "refresh_data"
  ELSE IF kind = "message" THEN "handle_message"
  ELSE "refresh"

\* _load_qa_data of task t has returned (res = "ok") or raised
finish_load(t, res) ==
  /\ running' = "none"
  /\ tres' = IF t = "job" THEN tres ELSE [tres EXCEPT ![t] = res]
  /\ tdf' = [tdf EXCEPT ![t] = <<>>]
  /\ tpc' = [tpc EXCEPT ![t] = IF t = "update" THEN refresh_reply(res) ELSE "idle"]
  /\ phase' = IF t = "main" THEN after_init(res)
              ELSE IF t = "job" THEN after_job(res)
              ELSE phase
  /\ cause' = IF t = "main" /\ after_init(res) = "down" THEN "init_failed"
              ELSE IF t = "job" /\ after_job(res) = "down" THEN "crash"
              ELSE cause
  /\ lastfail' = IF res = "raised" /\ t # "main" THEN handler_name(t)
                 ELSE lastfail

\* main(): SalesBot.__init__ up to the initial _load_qa_data
main_start(raises) ==
  /\ phase = "down"
  /\ collection' = get_or_create_collection(collection)
  /\ tpc' = [t \in Tasks |-> IF t = "main" /\ ~raises THEN "fetch" ELSE "idle"]
  /\ tdf' = [t \in Tasks |-> <<>>]
  /\ tres' = [t \in Tasks |-> "none"]
  /\ phase' = IF raises THEN "down" ELSE "init"
  /\ running' = IF raises THEN "none" ELSE "main"
  /\ cause' = IF raises THEN "init_failed" ELSE cause
  /\ kind' = "none"
  /\ calls' = <<>>
  /\ hits' = <<>>
  /\ gen' = <<>>
  /\ lastfail' = "none"
  /\ UNCHANGED store

\* _load_qa_data: self.sheets_loader.load_from_sheet()
bot_fetch(t, r) ==
  /\ running = t
  /\ tpc[t] = "fetch"
  /\ IF r[1] = "raise"
     THEN /\ finish_load(t, "raised")
     ELSE /\ tpc' = [tpc EXCEPT ![t] = "delete"]
          /\ tdf' = [tdf EXCEPT ![t] = r[2]]
          /\ UNCHANGED << phase, running, tres, cause, lastfail >>
  /\ UNCHANGED << collection, kind, calls, hits, gen, store >>

\* load_data: self.collection.delete(where={})
bot_delete(t, raises) ==
  /\ running = t
  /\ tpc[t] = "delete"
  /\ IF raises
     THEN /\ finish_load(t, "raised")
          /\ UNCHANGED collection
     ELSE /\ collection' = delete_all(collection)
          /\ tpc' = [tpc EXCEPT ![t] = "add"]
          /\ UNCHANGED << phase, running, tres, tdf, cause, lastfail >>
  /\ UNCHANGED << kind, calls, hits, gen, store >>

\* load_data: self.collection.add(...)
bot_add(t, raises) ==
  /\ running = t
  /\ tpc[t] = "add"
  /\ IF raises
     THEN /\ finish_load(t, "raised")
          /\ UNCHANGED collection
     ELSE /\ collection' = add_frame(collection, tdf[t])
          /\ finish_load(t, "ok")
  /\ UNCHANGED << kind, calls, hits, gen, store >>

\* the /refresh command arrives: SalesBot.refresh up to _load_qa_data
refresh ==
  /\ phase = "polling"
  /\ loop_free
  /\ tpc["update"] = "idle"
  /\ running' = "update"
  /\ tpc' = [tpc EXCEPT !["update"] = "fetch"]
  /\ tres' = [tres EXCEPT !["update"] = "none"]
  /\ kind' = "refresh"
  /\ calls' = <<>>
  /\ hits' = <<>>
  /\ gen' = <<>>
  /\ UNCHANGED << collection, phase, tdf, cause, lastfail, store >>

\* the scheduled job fires: SalesBot.refresh_data up to _load_qa_data
refresh_data ==
  /\ phase = "polling"
  /\ loop_free
  /\ tpc["job"] = "idle"
  /\ running' = "job"
  /\ tpc' = [tpc EXCEPT !["job"] = "fetch"]
  /\ UNCHANGED << collection, phase, tdf, tres, kind, calls, hits, gen, cause,
                  lastfail, store >>

\* a text message arrives: SalesBot.handle_message up to its first await
handle_message(query, fails, chat_raises) ==
  /\ phase = "polling"
  /\ loop_free
  /\ tpc["update"] = "idle"
  /\ LET docs == search_return(collection, query, <<>>, fails).result
     IN  /\ hits' = docs
         /\ gen' = generation_calls(docs)
         /\ tpc' = [tpc EXCEPT !["update"] = message_reply(docs, chat_raises)]
         /\ lastfail' = IF message_reply(docs, chat_raises) = "reply_error"
                        THEN "handle_message" ELSE lastfail
  /\ tres' = [tres EXCEPT !["update"] = "none"]
  /\ kind' = "message"
  /\ calls' = <<>>
  /\ UNCHANGED << collection, phase, running, tdf, cause, store >>

\* an awaited update.message.reply_text(...) completes or raises
reply_text(raises) ==
  /\ phase = "polling"
  /\ loop_free
  /\ tpc["update"] \in Replies
  /\ calls' = Append(calls, message_of(tpc["update"]))
  /\ tpc' = [tpc EXCEPT !["update"] =
               IF raises THEN on_reply_error(tpc["update"]) ELSE "idle"]
  /\ lastfail' = IF raises THEN handler_name("update") ELSE lastfail
  /\ hits' = IF tpc'["update"] = "idle" THEN <<>> ELSE hits
  /\ gen' = IF tpc'["update"] = "idle" THEN <<>> ELSE gen
  /\ UNCHANGED << collection, phase, running, tdf, tres, kind, cause, store >>

\* the process ends: nothing of it is left but the persisted collection
process_ends(why) ==
  /\ phase' = "down"
  /\ cause' = why
  /\ running' = "none"
  /\ tpc' = [t \in Tasks |-> "idle"]
  /\ tdf' = [t \in Tasks |-> <<>>]
  /\ tres' = [t \in Tasks |-> "none"]
  /\ kind' = "none"
  /\ calls' = <<>>
  /\ hits' = <<>>
  /\ gen' = <<>>
  /\ lastfail' = "none"
  /\ UNCHANGED << collection, store >>

\* SalesBot.run: the application is built, the handlers and the job are
\* registered and run_polling starts; any of these may raise, run re-raises
\* and main() logs "Bot crashed" and exits with status 1
run(raises) ==
  /\ phase = "starting"
  /\ IF raises
     THEN process_ends("run_failed")
     ELSE /\ phase' = "polling"
          /\ UNCHANGED << collection, running, tpc, tdf, tres, kind, calls,
                          hits, gen, cause, lastfail, store >>

\* SalesBot.run: app.run_polling() raises after polling has begun
run_polling_raises ==
  /\ phase = "polling"
  /\ loop_free
  /\ process_ends("run_failed")

\* main(): KeyboardInterrupt, "Bot stopped by user".  Before run_polling it
\* strikes anywhere, also between the delete and the add of the initial
\* load_data (the except clauses on the way catch Exception only); while
\* polling the event loop takes the signal between coroutines
stop ==
  /\ \/ phase \in {"init", "starting"}
     \/ phase = "polling" /\ loop_free
  /\ process_ends("interrupt")

NextBot ==
  \/ \E raises \in BOOLEAN : main_start(raises)
  \/ \E t \in Tasks, r \in FetchResults : bot_fetch(t, r)
  \/ \E t \in Tasks, raises \in BOOLEAN : bot_delete(t, raises)
  \/ \E t \in Tasks, raises \in BOOLEAN : bot_add(t, raises)
  \/ refresh
  \/ refresh_data
  \/ \E query \in QueryTexts, fails \in BOOLEAN, chat_raises \in BOOLEAN :
       handle_message(query, fails, chat_raises)
  \/ \E raises \in BOOLEAN : reply_text(raises)
  \/ \E raises \in BOOLEAN : run(raises)
  \/ run_polling_raises
  \/ stop

\* the process is not started; the collection is what an earlier run left
InitBot ==
  /\ Init
  /\ collection \in { Generation(f) : f \in BotFrames }

SpecBot == InitBot /\ [][NextBot]_vars

TypeOKBot ==
  /\ phase \in {"down", "init", "starting", "polling"}
  /\ running \in {"none"} \cup Tasks
  /\ \A t \in Tasks : tpc[t] \in {"idle", "fetch", "delete", "add"} \cup Replies
  /\ \A t \in Tasks : tdf[t] \in BotFrames
  /\ Len(calls) <= 3


\* ---------------------------------------------------------------- claims
Min(a, b) == IF a < b THEN a ELSE b

Searched == sret.op = "search"
Answered == sret.op = "search" /\ ~sret.failed

\* the same query asked of another collection content
AnswersFrom(c) == search_answers(c, sret.query, sret.n_results)

\* one item per pair, the i-th pair (from 0) under doc_i
ItemsOf(frame) ==
  { [ id |-> doc_id(i - 1), document |-> frame[i].question,
      metadata |-> [answer |-> frame[i].answer] ] : i \in 1..Len(frame) }

\* C1: a query that runs while load_data is in progress observes the whole
\* generation from before the refresh or the whole generation being loaded,
\* never a collection that is neither.
C1_QueryObservesWholeGeneration ==
  (Answered /\ pc \in {"delete", "add"}) =>
     /\ collection \in { pre, ItemsOf(df) }
     /\ sret.result \in { AnswersFrom(pre), AnswersFrom(ItemsOf(df)) }

\* C2: after load_data has raised (at the delete or at the add), the
\* collection holds exactly the previous generation and a query is answered
\* from it.
C2_FailedReindexKeepsPrevious ==
  outcome \in {"delete_failed", "add_failed"} =>
     /\ collection = pre
     /\ Answered => sret.result = AnswersFrom(pre)

\* C3: after a refresh whose fetch failed, the collection is what it was when
\* the refresh began and a query returns what it would have returned then.
C3_FetchFailureLeavesCollection ==
  outcome = "fetch_failed" =>
     /\ collection = pre
     /\ Answered => sret.result = AnswersFrom(pre)

C3_Witness ==
  /\ outcome = "fetch_failed"
  /\ pre # {}
  /\ Answered
  /\ sret.result # <<>>

\* C4: once a load_data(frame) has returned normally, the collection holds
\* exactly one item per pair of the frame (pair i under doc_i, question as
\* document, answer as payload) and every query is answered from exactly
\* that generation until the next load_data returns normally.
C4_SuccessfulReindexInstalls ==
  good # NoFrame =>
     /\ outcome = "ok" => collection = ItemsOf(good[1])
     /\ Answered => sret.result = AnswersFrom(ItemsOf(good[1]))

\* C5: a query that does not fail, asked with an integer k >= 0 of a
\* collection of n items, returns exactly min(k, n) results.
C5_TopKBound ==
  (Answered /\ sret.n_results # <<>>) =>
     Len(sret.result) = Min(sret.n_results[1], Cardinality(collection))

\* C6: after load_data of the empty frame has returned, and until the next
\* refresh begins, every search, for any text and any n_results, failing
\* inside or not, returns the empty sequence and raises nothing.
C6_EmptyReindexThenQuery ==
  (outcome = "ok" /\ df = <<>> /\ Searched) =>
     (sret.result = <<>> /\ ~sret.raised)

C6_Witness ==
  /\ outcome = "ok"
  /\ df = <<>>
  /\ pre # {}
  /\ Answered
  /\ sret.n_results = <<MaxK>>

\* C8: a step in which search returns, having failed inside or not, leaves
\* the items of the collection as they were.
C8_SearchKeepsCollection ==
  [][sret'.op = "search" => collection' = collection]_vars

C8_Witness ==
  /\ Searched
  /\ sret.failed
  /\ Cardinality(collection) = MaxLen

\* C9: a search whose query call raised returns the empty sequence and raises
\* nothing to its caller.
C9_SearchSwallowsFailure ==
  (Searched /\ sret.failed) => (sret.result = <<>> /\ ~sret.raised)

C9_Witness ==
  /\ Searched
  /\ sret.failed
  /\ collection # {}
  /\ pc = "idle"

\* the top_k a call asked for: the argument, or the configured default
Requested == IF sret.n_results = <<>> THEN TOP_K_RESULTS ELSE sret.n_results[1]

\* C10: the results of a query are in order of non-increasing
\* relevance_score, each score is 1 - the distance of its item, each
\* question/answer pair is an item of the collection, and there are at most
\* as many results as the top_k asked for.
C10_RankedResults ==
  Answered =>
     /\ \A i \in 1..Len(sret.result) : \A j \in i..Len(sret.result) :
          sret.result[i].relevance_score >= sret.result[j].relevance_score
     /\ \A i \in 1..Len(sret.result) :
          /\ sret.result[i].relevance_score
               = 1 - Distance(sret.query, sret.result[i].question)
          /\ \E item \in collection :
               /\ item.document = sret.result[i].question
               /\ item.metadata.answer = sret.result[i].answer
     /\ Len(sret.result) <= Requested

\* C11: after load_data of two pairs with different questions has returned,
\* a query with the first pair's question and n_results = 1 returns exactly
\* one result, and its answer is the first pair's answer (Embed puts equal
\* texts at distance 0 and different texts at a larger distance).
C11_ExactTextRetrievesItself ==
  ( /\ outcome = "ok"
    /\ Len(df) = 2
    /\ df[1].question # df[2].question
    /\ Answered
    /\ sret.query = df[1].question
    /\ sret.n_results = <<1>> ) =>
     /\ Len(sret.result) = 1
     /\ sret.result[1].answer = df[1].answer

C11_Witness ==
  /\ outcome = "ok"
  /\ Len(df) = 2
  /\ df[1].question = "q3"
  /\ df[2].question = "q1"
  /\ Answered
  /\ sret.query = "q3"
  /\ sret.n_results = <<1>>
  /\ Len(sret.result) = 1

\* C15: one call of load_from_sheet makes at most 3 attempts; it leaves the
\* fetch with a frame in the very step of the first attempt that does not
\* raise, it raises to the refresh only from its 3rd attempt, and after it
\* has raised no further attempt is made until a new refresh begins.
C15_ThreeAttemptsThenTerminal ==
  [][ /\ attempt' <= 3
      /\ (pc = "fetch" /\ pc' = "idle") =>
            (attempt = 3 /\ outcome' = "fetch_failed")
      /\ (pc = "fetch" /\ pc' = "delete") =>
            (attempt \in 1..3 /\ attempt' = 0 /\ outcome' = "running")
      /\ (pc = "fetch" /\ pc' = "fetch") =>
            attempt' \in {attempt, attempt + 1}
      /\ (outcome = "fetch_failed" /\ pc' = "fetch") =>
            (attempt' = 1 /\ outcome' = "running" /\ pc = "idle")
    ]_vars

C15_Witness ==
  /\ outcome = "fetch_failed"
  /\ pc = "idle"
  /\ attempt = 0
  /\ collection # {}

\* a task is inside _load_qa_data
Loading(t) == tpc[t] \in {"fetch", "delete", "add"}

\* C12: at no time are two of the refreshes (startup, /refresh, scheduled)
\* inside _load_qa_data together; in particular never two between their
\* clear and their insert.  A refresh that fires while the handler of
\* another is still in flight starts only once that one's load is over.
C12_RefreshesSerialized ==
  \A t1 \in Tasks : \A t2 \in Tasks \ {t1} : ~(Loading(t1) /\ Loading(t2))

C12_Witness ==
  /\ kind = "refresh"
  /\ tpc["update"] \in Replies
  /\ tpc["job"] = "add"
  /\ running = "job"

\* C13: while polling, no failure of /refresh, of the scheduled refresh or
\* of a message handler ends the process: a step in which one of them fails
\* leaves the bot polling, and polling ends only by the user's interrupt or
\* by run_polling itself raising.  Whenever the loop is free the bot takes
\* the next message, /refresh or scheduled refresh.
C13_FailuresAreLocal ==
  /\ [][ /\ (phase = "polling" /\ phase' # "polling") =>
              cause' \in {"interrupt", "run_failed"}
         /\ (phase = "polling" /\ lastfail' # lastfail /\ lastfail' # "none") =>
              phase' = "polling" ]_vars
  /\ [](( phase = "polling" /\ loop_free ) =>
          /\ tpc["update"] = "idle" =>
               (ENABLED refresh /\
                ENABLED handle_message("q1", FALSE, FALSE))
          /\ tpc["job"] = "idle" => ENABLED refresh_data)

C13_Witness ==
  /\ phase = "polling"
  /\ lastfail = "refresh"
  /\ kind = "message"
  /\ calls = << "answer" >>
  /\ tpc["update"] = "idle"

\* C14: starting the process leaves the persisted items exactly as they
\* were: constructing the VectorStore adds and removes nothing.
C14_RestartKeepsCollection ==
  [][phase = "down" => collection' = collection]_vars

C14_Witness ==
  /\ phase = "init"
  /\ cause = "interrupt"
  /\ tpc["main"] = "fetch"
  /\ Cardinality(collection) = MaxBotLen

\* C16: while a message is being handled, the generation model has been
\* called exactly once, with the retrieved pairs as context, if the search
\* returned results, and not at all if it returned none; in that case the
\* first reply is the "no relevant information" one.
C16_GenerationOnlyWithResults ==
  (kind = "message" /\ tpc["update"] \in Replies) =>
     /\ hits # <<>> =>
          /\ Len(gen) = 1
          /\ gen[1] = [i \in 1..Len(hits) |->
                         << "Q: ", hits[i].question, "\nA: ", hits[i].answer >>]
     /\ hits = <<>> =>
          /\ gen = <<>>
          /\ IF calls = <<>> THEN tpc["update"] = "reply_nomatch"
             ELSE calls[1] = "nomatch"

C16_Witness ==
  /\ kind = "message"
  /\ tpc["update"] = "reply_nomatch"
  /\ hits = <<>>
  /\ gen = <<>>
  /\ collection # {}

\* C17: run() is called, the bot polls, and anything is handled, only after
\* the initial _load_qa_data of the constructor has returned normally; once
\* it has raised, the process is down and not polling.
C17_NoHandlingBeforeFirstLoad ==
  /\ phase \in {"starting", "polling"} => tres["main"] = "ok"
  /\ (kind # "none" \/ tpc["update"] # "idle" \/ tpc["job"] # "idle") =>
        tres["main"] = "ok"
  /\ tres["main"] = "raised" => (phase = "down" /\ cause = "init_failed")

C17_Witness ==
  /\ tres["main"] = "raised"
  /\ phase = "down"
  /\ collection = {}

\* C18: for a /refresh command, reply_text is called with the success text
\* only if the _load_qa_data of that command returned normally; if it
\* raised, the success text is never sent and the failure text is.
C18_SuccessReplyOnlyAfterLoad ==
  kind = "refresh" =>
     /\ (\E i \in 1..Len(calls) : calls[i] = "success") =>
           tres["update"] = "ok"
     /\ tres["update"] = "raised" =>
           /\ \A i \in 1..Len(calls) : calls[i] # "success"
           /\ IF calls = <<>> THEN tpc["update"] = "reply_failed"
              ELSE calls[1] = "failure"

C18_Witness ==
  /\ kind = "refresh"
  /\ tres["update"] = "raised"
  /\ calls = << "failure" >>
  /\ tpc["update"] = "idle"
====
